---- MODULE Spec2Model ----
(***************************************************************************)
(* Evidence chain-of-custody subsystem of collector/views.py:               *)
(* create_evidence_chain (the recorder), calculate_hash (the digest         *)
(* engine), save_to_evidence_log / save_to_json_log (the ledger: a CSV log  *)
(* and a JSON document), verify_integrity (the verifier), the ledger        *)
(* listing view and the report generator.                                   *)
(*                                                                         *)
(* Modelling conventions                                                    *)
(*  - A path is the sequence of its components; os.path.basename is the     *)
(*    last component.                                                       *)
(*  - File contents are sequences of one-byte strings; the size of a file   *)
(*    is the length of that sequence.                                       *)
(*  - A hex digest is the sequence <<algorithm>> \o contents: the digest    *)
(*    functions are taken to be collision free, and no digest equals the    *)
(*    placeholder <<"ERROR">> that calculate_hash returns on failure.       *)
(*  - A Python call is an operator that returns a record with a field       *)
(*    `raised` (an exception left the call) next to its value and the new   *)
(*    contents of the files it writes.                                      *)
(*  - Failures of the environment (a file that cannot be opened for         *)
(*    reading, an open() or write() that fails) are inputs of the action    *)
(*    that performs the call.                                               *)
(***************************************************************************)
EXTENDS Integers, Sequences, FiniteSets, TLC

\* Bound on the number of record calls in one behaviour.
MaxCalls == 2

\* The artefact files of the collection root: two share a base name.
Paths == { <<"d1", "a.txt">>, <<"d2", "a.txt">>, <<"d1", "b.txt">> }

\* The artefact files recorded while the ledger files can fail.
IOPaths == { <<"d1", "a.txt">> }

\* The contents an artefact file can have.
Contents == { <<"h">>, <<"w", "w">> }

\* The operation labels passed to the recorder.
Labels == { "calls_extraction" }

\* The actions of execute_command that write one artefact file: the Google
\* Maps extraction, the call-log extraction, and one of the actions that run
\* an adb command and save its output.
Actions == { "extract_google_maps", "list_calls", "extract_contacts" }

\* What an extraction can give: nothing, or the contents of the artefact.
Outputs == { <<>> } \cup Contents

\* The requests that can be served at the same time, and the artefact
\* files and contents they record.
Writers == { "w1", "w2" }
ConcPaths == { <<"d1", "a.txt">>, <<"d1", "b.txt">> }
ConcContents == { <<"h">> }

\* Bound on the number of record calls in one behaviour of concurrent
\* requests.
MaxConc == 3

\* Bound on the wall clock, in seconds.
MaxNow == 1

\* Failure points of the JSON document rewrite (try branch) and of its
\* fallback rewrite (except branch).
JsonFaults == { "none", "read", "open", "write" }
FallbackFaults == { "none", "open", "write" }

VARIABLES
    fs,         \* the artefact files: path -> [exists, data]
    csv,        \* evidence_log.csv: [shape, rows]; shape is the sequence of
                \* line kinds ("H" header, "R" record row), rows the entries
                \* of the "R" lines in file order; shape = <<>> iff no file
    json,       \* evidence_log.json: [state, chain]; state is "absent",
                \* "ok" (a document {"evidence_chain": chain}) or "corrupt"
    clock,      \* number of record calls so far; the timestamp source
    last,       \* the last handler that ran, its inputs and what it returned
    reports,    \* forensic_reports/: [json, html], each a function from the
                \* report ids that have a file to the file's contents
    now,        \* the wall clock, in seconds (the resolution of report ids)
    returned,   \* history: the PASS records returned so far, in call order,
                \* each with the file contents at capture time
    procs       \* the calls of create_evidence_chain in progress in the
                \* concurrent requests: writer -> its position and locals

vars == <<fs, csv, json, clock, last, reports, now, returned, procs>>

----------------------------------------------------------------------------
\* Values

NoFile == [exists |-> FALSE, data |-> <<>>]
File(c) == [exists |-> TRUE, data |-> c]

EmptyCsv == [shape |-> <<>>, rows |-> <<>>]
AbsentDoc == [state |-> "absent", chain |-> <<>>]
CorruptDoc == [state |-> "corrupt", chain |-> <<>>]
Doc(chain) == [state |-> "ok", chain |-> chain]

\* The placeholder calculate_hash returns when it could not read the file.
ERROR == <<"ERROR">>

\* os.path.basename
basename(path) == path[Len(path)]

\* hashlib: hash_func.update over every chunk, then hexdigest().
hexdigest(algorithm, data) == <<algorithm>> \o data

\* os.path.getsize: raises when the file does not exist.
getsize(f) ==
    IF f.exists THEN [raised |-> FALSE, value |-> Len(f.data)]
                ELSE [raised |-> TRUE, value |-> 0]

\* format_file_size: the size scaled to the first unit under 1024 (the
\* two-decimal rendering is kept as the integer part).
RECURSIVE scale_size(_, _)
scale_size(n, units) ==
    IF units = <<>> THEN <<n, "TB">>
    ELSE IF n < 1024 THEN <<n, Head(units)>>
    ELSE scale_size(n \div 1024, Tail(units))

format_file_size(size_bytes) ==
    IF size_bytes = 0 THEN <<0, "B">>
    ELSE scale_size(size_bytes, <<"B", "KB", "MB", "GB">>)

----------------------------------------------------------------------------
\* Digest engine

\* calculate_hash: open the file, digest it chunk by chunk; any failure is
\* caught by the bare except and "ERROR" is returned in place of a digest.
calculate_hash(f, canRead, algorithm) ==
    IF f.exists /\ canRead
    THEN [raised |-> FALSE, value |-> hexdigest(algorithm, f.data)]
    ELSE [raised |-> FALSE, value |-> ERROR]

----------------------------------------------------------------------------
\* Evidence ledger

\* An except branch that keeps the records it still holds in memory.
json_fallback_keeping(evidence_entry, doc, fb) ==
    [raised |-> FALSE, fallback |-> TRUE,
     json |-> Doc(Append(doc.chain, evidence_entry))]

\* The except branch of save_to_json_log: rewrite the document with the new
\* entry alone.  open(.., 'w') truncates the file before json.dump writes.
json_fallback(evidence_entry, doc, fb) ==
    IF fb = "open" THEN [raised |-> TRUE, fallback |-> TRUE, json |-> doc]
    ELSE IF fb = "write" THEN [raised |-> TRUE, fallback |-> TRUE, json |-> CorruptDoc]
    ELSE [raised |-> FALSE, fallback |-> TRUE, json |-> Doc(<<evidence_entry>>)]

\* save_to_json_log without the read of the existing document: the document
\* is rewritten with the new entry alone.
save_to_json_log_overwrite(evidence_entry, doc, jf, fb) ==
    [raised |-> FALSE, fallback |-> FALSE, json |-> Doc(<<evidence_entry>>)]

\* save_to_json_log: read the document (if the file exists), append the
\* entry, rewrite the whole document; on any failure run the except branch
\* (`fallback` tells that it ran).  jf: the step of the try block that
\* fails; fb: the step of the except branch that fails.
save_to_json_log(evidence_entry, doc, jf, fb) ==
    IF doc.state = "corrupt" \/ (doc.state = "ok" /\ jf = "read")
    THEN json_fallback(evidence_entry, doc, fb)
    ELSE IF jf = "open" THEN json_fallback(evidence_entry, doc, fb)
    ELSE IF jf = "write" THEN json_fallback(evidence_entry, CorruptDoc, fb)
    ELSE [raised |-> FALSE, fallback |-> FALSE,
          json |-> Doc(Append(doc.chain, evidence_entry))]

\* The CSV written with mode 'w' instead of 'a': earlier rows are lost.
csv_append_truncating(log, evidence_entry) ==
    [shape |-> <<"H", "R">>, rows |-> <<evidence_entry>>]

\* A CSV append that writes the row twice.
csv_append_twice(log, evidence_entry) ==
    [shape |-> log.shape \o (IF log.shape = <<>> THEN <<"H", "R", "R">>
                                                 ELSE <<"R", "R">>),
     rows |-> log.rows \o <<evidence_entry, evidence_entry>>]

\* The with block of save_to_evidence_log: open the CSV log for appending,
\* write the header when file_exists was false, write one row, close.
csv_write(log, evidence_entry, file_exists) ==
    [shape |-> log.shape \o (IF ~file_exists THEN <<"H", "R">> ELSE <<"R">>),
     rows |-> Append(log.rows, evidence_entry)]

\* os.path.isfile(log_file)
isfile(log) == log.shape # <<>>

\* The CSV append of save_to_evidence_log: header first when the file did
\* not exist, then one row.
csv_append(log, evidence_entry) ==
    csv_write(log, evidence_entry, isfile(log))

\* save_to_evidence_log: append to the CSV log, then save_to_json_log.
\* cf: opening the CSV log fails (nothing is written).
save_to_evidence_log(evidence_entry, log, doc, cf, jf, fb) ==
    IF cf THEN [raised |-> TRUE, fallback |-> FALSE, csv |-> log, json |-> doc]
    ELSE LET j == save_to_json_log(evidence_entry, doc, jf, fb)
         IN  [raised |-> j.raised,
              fallback |-> j.fallback,
              csv |-> csv_append(log, evidence_entry),
              json |-> j.json]

----------------------------------------------------------------------------
\* Chain-of-custody recorder

\* A record whose filename is the whole path.
evidence_entry_full_name(path, operation_type, size, md5, sha1, sha256, ts) ==
    [timestamp |-> ts,
     filename |-> path,
     full_path |-> path,
     file_size |-> size,
     file_size_readable |-> format_file_size(size),
     md5 |-> md5,
     sha1 |-> sha1,
     sha256 |-> sha256,
     operation |-> operation_type,
     operator |-> "Android Collector",
     device_id |-> "N/A",
     integrity_check |-> "PASS",
     notes |-> <<operation_type, "via ADB backup">>]

\* The record built on the success path of create_evidence_chain.
evidence_entry(path, operation_type, size, md5, sha1, sha256, ts) ==
    [timestamp |-> ts,
     filename |-> basename(path),
     full_path |-> path,
     file_size |-> size,
     file_size_readable |-> format_file_size(size),
     md5 |-> md5,
     sha1 |-> sha1,
     sha256 |-> sha256,
     operation |-> operation_type,
     operator |-> "Android Collector",
     device_id |-> "N/A",
     integrity_check |-> "PASS",
     notes |-> <<operation_type, "via ADB backup">>]

\* The record built by the except branch of create_evidence_chain.
fail_entry(path, ts, e) ==
    [timestamp |-> ts,
     filename |-> basename(path),
     error |-> e,
     integrity_check |-> "FAIL"]

\* What a call that was not made returns.
NotCalled == [raised |-> FALSE, value |-> <<"not called">>]

\* The body of the try block of create_evidence_chain: `raised` tells whether
\* an exception left it, `error` which one; `digest` is what the call
\* calculate_hash(file_path, 'sha256') did, `fallback` whether the except
\* branch of save_to_json_log ran.
try_record(path, operation_type, f, canRead, ts, log, doc, cf, jf, fb) ==
    LET size == getsize(f)
        h_md5 == calculate_hash(f, canRead, "md5")
        h_sha1 == calculate_hash(f, canRead, "sha1")
        h_sha256 == calculate_hash(f, canRead, "sha256")
        entry == evidence_entry(path, operation_type, size.value,
                                h_md5.value, h_sha1.value, h_sha256.value, ts)
        saved == save_to_evidence_log(entry, log, doc, cf, jf, fb)
    IN  IF size.raised
        THEN [raised |-> TRUE, error |-> "stat", ret |-> entry,
              csv |-> log, json |-> doc, digest |-> NotCalled, fallback |-> FALSE]
        ELSE IF h_md5.raised \/ h_sha1.raised \/ h_sha256.raised
        THEN [raised |-> TRUE, error |-> "digest", ret |-> entry,
              csv |-> log, json |-> doc, digest |-> h_sha256, fallback |-> FALSE]
        ELSE [raised |-> saved.raised, error |-> "ledger", ret |-> entry,
              csv |-> saved.csv, json |-> saved.json, digest |-> h_sha256,
              fallback |-> saved.fallback]

\* create_evidence_chain without its try/except: failures leave the call.
create_evidence_chain_unguarded(path, operation_type, f, canRead, ts, log, doc, cf, jf, fb) ==
    LET t == try_record(path, operation_type, f, canRead, ts, log, doc, cf, jf, fb)
    IN  [raised |-> t.raised,
         ret |-> IF t.raised THEN fail_entry(path, ts, t.error) ELSE t.ret,
         csv |-> t.csv, json |-> t.json, digest |-> t.digest,
         fallback |-> t.fallback]

\* create_evidence_chain: the try block, and the except branch that turns
\* any exception into a FAIL record.
create_evidence_chain(path, operation_type, f, canRead, ts, log, doc, cf, jf, fb) ==
    LET t == try_record(path, operation_type, f, canRead, ts, log, doc, cf, jf, fb)
    IN  [raised |-> FALSE,
         ret |-> IF t.raised THEN fail_entry(path, ts, t.error) ELSE t.ret,
         csv |-> t.csv, json |-> t.json, digest |-> t.digest,
         fallback |-> t.fallback]

----------------------------------------------------------------------------
\* Integrity verifier

\* A lookup that takes the first entry of the chain when none matches.
first_match_or_first(chain, filename) ==
    IF \E i \in 1..Len(chain) : chain[i].filename = filename
    THEN CHOOSE i \in 1..Len(chain) :
            /\ chain[i].filename = filename
            /\ \A k \in 1..(i - 1) : chain[k].filename # filename
    ELSE IF Len(chain) > 0 THEN 1 ELSE 0

\* The loop of verify_integrity: the first entry whose filename matches
\* (the loop breaks at the first match); 0 when there is none.
first_match(chain, filename) ==
    IF \E i \in 1..Len(chain) : chain[i].filename = filename
    THEN CHOOSE i \in 1..Len(chain) :
            /\ chain[i].filename = filename
            /\ \A k \in 1..(i - 1) : chain[k].filename # filename
    ELSE 0

\* verify_integrity.  Reading a corrupt document raises (json.load is not
\* guarded).
verify_integrity(path, f, canRead, doc) ==
    IF ~f.exists
    THEN [raised |-> FALSE,
          ret |-> [status |-> "error", message |-> "Fichier introuvable"]]
    ELSE IF doc.state = "absent"
    THEN [raised |-> FALSE,
          ret |-> [status |-> "error", message |-> "Aucune preuve enregistree"]]
    ELSE IF doc.state = "corrupt"
    THEN [raised |-> TRUE,
          ret |-> [status |-> "exception", message |-> "JSONDecodeError"]]
    ELSE LET i == first_match(doc.chain, basename(path))
             current_hash == calculate_hash(f, canRead, "sha256").value
         IN  IF i = 0
             THEN [raised |-> FALSE,
                   ret |-> [status |-> "error",
                            message |-> "Preuve originale introuvable"]]
             ELSE IF current_hash = doc.chain[i].sha256
             THEN [raised |-> FALSE,
                   ret |-> [status |-> "success",
                            message |-> "Integrite verifiee",
                            original_hash |-> doc.chain[i].sha256,
                            current_hash |-> current_hash,
                            match |-> TRUE]]
             ELSE [raised |-> FALSE,
                   ret |-> [status |-> "warning",
                            message |-> "ALTERATION DETECTEE",
                            original_hash |-> doc.chain[i].sha256,
                            current_hash |-> current_hash,
                            match |-> FALSE]]

----------------------------------------------------------------------------
\* Ledger listing view

\* view_evidence_chain: the document's records and their statistics; an
\* empty listing when there is no document.  Reading a corrupt document
\* raises (json.load is not guarded).
view_evidence_chain(doc) ==
    IF doc.state = "absent"
    THEN [raised |-> FALSE,
          ret |-> [evidence_chain |-> <<>>, total_entries |-> 0, files_with_errors |-> 0]]
    ELSE IF doc.state = "corrupt"
    THEN [raised |-> TRUE,
          ret |-> [evidence_chain |-> <<>>, total_entries |-> 0, files_with_errors |-> 0]]
    ELSE [raised |-> FALSE,
          ret |-> [evidence_chain |-> doc.chain,
                   total_entries |-> Len(doc.chain),
                   files_with_errors |->
                       Cardinality({i \in 1..Len(doc.chain) :
                                       doc.chain[i].integrity_check = "FAIL"})]]

----------------------------------------------------------------------------
\* Report assembler

\* dict.get(key, default); a dict is a function from its keys.
dict_get(d, key, default) == IF key \in DOMAIN d THEN d[key] ELSE default

\* scenario_data is None, or a dict; `if scenario_data` is false for both
\* None and the empty dict.
NoScenario == [none |-> TRUE, d |-> <<>>]
Scenario(d) == [none |-> FALSE, d |-> d]
truthy(scenario_data) == ~scenario_data.none /\ DOMAIN scenario_data.d # {}

\* The case metadata a caller of generate_forensic_report can pass: none, a
\* dict without a case name, a dict with a case name.
Scenarios ==
    { NoScenario,
      Scenario([case_number |-> "CS-7"]),
      Scenario([case_name |-> "Affaire X"]) }

\* request.POST of the report form: the form left blank.
Posts ==
    { [case_name |-> "", case_number |-> "", incident_date |-> "",
       location |-> "", description |-> ""] }

\* get_latest_extraction_data: fixed sample data.
get_latest_extraction_data ==
    [total_files |-> 42,
     has_contacts |-> TRUE, has_calls |-> TRUE, has_sms |-> TRUE,
     has_whatsapp |-> TRUE, has_google_maps |-> TRUE, has_images |-> TRUE,
     has_location |-> TRUE,
     main_findings |-> "Donnees de communication extraites avec succes",
     significant_findings |-> "Trajets Google Maps detectes"]

\* A report id that does not depend on the time of generation.
report_id_fixed(second) == <<"FR", 0>>

\* f"FR-{timestamp.strftime('%Y%m%d-%H%M%S')}": the second of generation.
report_id_at(second) == <<"FR", second>>

\* The report dictionary built by generate_forensic_report (the fixed
\* boilerplate sections are left out).
build_report(extraction_data, scenario_data, second) ==
    [report_id |-> report_id_at(second),
     generation_date |-> second,
     case_reference |->
        IF truthy(scenario_data)
        THEN dict_get(scenario_data.d, "case_number", "CS-2024-001")
        ELSE "CS-NON-RENSEIGNE",
     case_details |->
        [case_name |->
            IF truthy(scenario_data)
            THEN dict_get(scenario_data.d, "case_name", "Investigation Android")
            ELSE "Investigation Standard",
         incident_date |->
            IF truthy(scenario_data)
            THEN dict_get(scenario_data.d, "incident_date", "N/A") ELSE "N/A",
         location |->
            IF truthy(scenario_data)
            THEN dict_get(scenario_data.d, "location", "N/A") ELSE "N/A",
         description |->
            IF truthy(scenario_data)
            THEN dict_get(scenario_data.d, "description",
                          "Analyse forensique d'un appareil Android")
            ELSE "Analyse forensique standard"],
     evidence_chain |->
        [total_files |-> dict_get(extraction_data, "total_files", 0),
         hashes_calculated |-> dict_get(extraction_data, "hashes_calculated", TRUE),
         integrity_verified |-> dict_get(extraction_data, "integrity_ok", TRUE)],
     main_findings |->
        dict_get(extraction_data, "main_findings",
                 "Aucune donnee compromettante detectee")]

\* generate_html_report: the fields of the report the page shows.
generate_html_report(report) ==
    [report_id |-> report.report_id,
     generation_date |-> report.generation_date,
     case_name |-> report.case_details.case_name,
     incident_date |-> report.case_details.incident_date,
     location |-> report.case_details.location,
     integrity_verified |-> report.evidence_chain.integrity_verified,
     total_files |-> report.evidence_chain.total_files,
     hashes_calculated |-> report.evidence_chain.hashes_calculated,
     main_findings |-> report.main_findings]

\* Writing a file of forensic_reports/ (open(.., 'w') and write).
put(files, id, content) ==
    [k \in DOMAIN files \cup {id} |-> IF k = id THEN content ELSE files[k]]

\* A save that writes the HTML file first, then the JSON file.
save_report_files_html_first(report, report_id, files, jw, hw) ==
    IF hw THEN [raised |-> TRUE, files |-> files]
    ELSE LET withHtml == [files EXCEPT
                             !.html = put(files.html, report_id,
                                          generate_html_report(report))]
         IN  IF jw THEN [raised |-> TRUE, files |-> withHtml]
             ELSE [raised |-> FALSE,
                   files |-> [withHtml EXCEPT
                                 !.json = put(withHtml.json, report_id, report)]]

\* save_report_files: the JSON file, then the HTML file.  jw, hw: opening
\* that file fails.
save_report_files(report, report_id, files, jw, hw) ==
    IF jw THEN [raised |-> TRUE, files |-> files]
    ELSE LET withJson == [files EXCEPT !.json = put(files.json, report_id, report)]
         IN  IF hw THEN [raised |-> TRUE, files |-> withJson]
             ELSE [raised |-> FALSE,
                   files |-> [withJson EXCEPT
                                 !.html = put(withJson.html, report_id,
                                              generate_html_report(report))]]

\* generate_forensic_report: build the report, save it, return it.
generate_forensic_report(extraction_data, scenario_data, second, files, jw, hw) ==
    LET report == build_report(extraction_data, scenario_data, second)
        saved == save_report_files(report, report.report_id, files, jw, hw)
    IN  [raised |-> saved.raised, ret |-> report, files |-> saved.files]

\* generate_forensic_report_view (POST): the case metadata read from the
\* form, generate_forensic_report, then save_report_files once more for the
\* paths of the answer.  `report` is the report that was generated.
generate_forensic_report_view(post, second, files, jw, hw) ==
    LET scenario_data ==
            Scenario([case_name |-> dict_get(post, "case_name", "Investigation Android"),
                      case_number |-> dict_get(post, "case_number", "CS-2024-001"),
                      incident_date |-> dict_get(post, "incident_date", ""),
                      location |-> dict_get(post, "location", ""),
                      description |-> dict_get(post, "description", "")])
        g == generate_forensic_report(get_latest_extraction_data, scenario_data,
                                      second, files, jw, hw)
        again == save_report_files(g.ret, g.ret.report_id, g.files, FALSE, FALSE)
    IN  IF g.raised
        THEN [raised |-> TRUE,
              ret |-> [status |-> "exception", report_id |-> g.ret.report_id],
              report |-> g.ret, files |-> g.files]
        ELSE [raised |-> FALSE,
              ret |-> [status |-> "success", report_id |-> g.ret.report_id],
              report |-> g.ret, files |-> again.files]

----------------------------------------------------------------------------
\* Acquisition layer

\* result['file_path'] = None
NoPath == <<>>

\* s[:16]
take16(s) == SubSeq(s, 1, IF Len(s) < 16 THEN Len(s) ELSE 16)

\* The operation label an action passes to create_evidence_chain.
operation_label(action) ==
    IF action = "list_calls" THEN "calls_extraction" ELSE action

\* An execute_command that answers an error when the record is degraded.
execute_command_strict(action, output, path, f, canRead, ts, log, doc, cf, jf, fb) ==
    LET written == File(output)
        r == create_evidence_chain(path, operation_label(action), written,
                                   canRead, ts, log, doc, cf, jf, fb)
    IN  [result |-> [status |-> IF r.ret.integrity_check = "PASS"
                                THEN "success" ELSE "error",
                     message |-> <<"Appels extraits avec succes",
                                   take16(dict_get(r.ret, "sha256", <<"N/A">>))>>,
                     file_path |-> path],
         file |-> written, csv |-> r.csv, json |-> r.json,
         recorded |-> <<r.ret>>]

\* execute_command for a connected device: the branch of the action, from
\* the extraction to the JSON answer.  output is what the extraction gave,
\* path the artefact file the action writes, f that file before the call.
\* `recorded` is the sequence of records the calls of create_evidence_chain
\* returned.
execute_command(action, output, path, f, canRead, ts, log, doc, cf, jf, fb) ==
    LET written == File(output)
        r == create_evidence_chain(path, operation_label(action), written,
                                   canRead, ts, log, doc, cf, jf, fb)
        proof == take16(dict_get(r.ret, "sha256", <<"N/A">>))
    IN  IF action = "extract_google_maps"
        THEN [result |-> [status |-> "success",
                          message |-> <<"Donnees Google Maps extraites">>,
                          file_path |-> path],
              file |-> written, csv |-> log, json |-> doc, recorded |-> <<>>]
        ELSE IF output = <<>>
        THEN [result |-> [status |-> "error",
                          message |-> <<"Aucune donnee">>,
                          file_path |-> NoPath],
              file |-> f, csv |-> log, json |-> doc, recorded |-> <<>>]
        ELSE IF action = "list_calls"
        THEN [result |-> [status |-> "success",
                          message |-> <<"Appels extraits avec succes", proof>>,
                          file_path |-> path],
              file |-> written, csv |-> r.csv, json |-> r.json,
              recorded |-> <<r.ret>>]
        ELSE [result |-> [status |-> "success",
                          message |-> <<"Contacts exportes", proof>>,
                          file_path |-> path,
                          evidence_hash |-> proof],
              file |-> written, csv |-> r.csv, json |-> r.json,
              recorded |-> <<r.ret>>]

\* download_report: the rendered report as an attachment, or a 404 answer
\* when forensic_reports/<report_id>.html does not exist.
download_report(report_id, files) ==
    IF report_id \in DOMAIN files.html
    THEN [status |-> 200, content |-> files.html[report_id],
          attachment |-> report_id]
    ELSE [status |-> 404, error |-> "Rapport non trouve"]

\* The report ids a download request can name: one that generate can have
\* written, one it cannot.
RequestedIds == { report_id_at(0), report_id_at(1) }

----------------------------------------------------------------------------
\* State machine

NoCall == [op |-> "none"]
Idle == [pc |-> "idle"]
NoReports == [json |-> <<>>, html |-> <<>>]

Init ==
    /\ fs = [p \in Paths |-> NoFile]
    /\ csv = EmptyCsv
    /\ json = AbsentDoc
    /\ clock = 0
    /\ last = NoCall
    /\ reports = NoReports
    /\ now = 0
    /\ returned = <<>>
    /\ procs = [w \in Writers |-> Idle]

\* The acquisition layer writes an artefact file (open(.., 'w') + write), or
\* something else rewrites it.
Produce(p, c) ==
    /\ fs[p] # File(c)
    /\ fs' = [fs EXCEPT ![p] = File(c)]
    /\ last' = [op |-> "produce"]
    /\ UNCHANGED <<csv, json, clock, reports, now, returned, procs>>

\* An artefact file disappears.
Vanish(p) ==
    /\ fs[p].exists
    /\ fs' = [fs EXCEPT ![p] = NoFile]
    /\ last' = [op |-> "vanish"]
    /\ UNCHANGED <<csv, json, clock, reports, now, returned, procs>>

\* record(filePath, operationLabel): one call of create_evidence_chain.
Record(p, operation_type, canRead, cf, jf, fb) ==
    /\ clock < MaxCalls
    /\ LET r == create_evidence_chain(p, operation_type, fs[p], canRead,
                                      clock + 1, csv, json, cf, jf, fb)
       IN  /\ csv' = r.csv
           /\ json' = r.json
           /\ last' = [op |-> "record", path |-> p, label |-> operation_type,
                       canRead |-> canRead, raised |-> r.raised,
                       ret |-> r.ret, digest |-> r.digest,
                       fallback |-> r.fallback]
           /\ returned' = IF ~r.raised /\ r.ret.integrity_check = "PASS"
                          THEN Append(returned, [entry |-> r.ret, data |-> fs[p].data])
                          ELSE returned
    /\ clock' = clock + 1
    /\ UNCHANGED <<fs, reports, now, procs>>

\* A verify that logs its own call in the CSV log.
Verify_logging(p, canRead) ==
    /\ LET r == verify_integrity(p, fs[p], canRead, json)
       IN  /\ last' = [op |-> "verify", path |-> p, canRead |-> canRead,
                       raised |-> r.raised, ret |-> r.ret]
           /\ csv' = csv_append(csv, fail_entry(p, clock, "verify"))
    /\ UNCHANGED <<fs, json, clock, reports, now, returned, procs>>

\* verify(filePath): verify_file_integrity calls verify_integrity.
Verify(p, canRead) ==
    /\ LET r == verify_integrity(p, fs[p], canRead, json)
       IN  last' = [op |-> "verify", path |-> p, canRead |-> canRead,
                    raised |-> r.raised, ret |-> r.ret]
    /\ UNCHANGED <<fs, csv, json, clock, reports, now, returned, procs>>

\* The ledger listing request.
ViewChain ==
    /\ LET r == view_evidence_chain(json)
       IN  last' = [op |-> "list", raised |-> r.raised, ret |-> r.ret]
    /\ UNCHANGED <<fs, csv, json, clock, reports, now, returned, procs>>

\* generate(extractionData, caseMetadata): one call of
\* generate_forensic_report.
Generate(extraction_data, scenario_data, jw, hw) ==
    /\ LET r == generate_forensic_report(extraction_data, scenario_data, now,
                                         reports, jw, hw)
       IN  /\ reports' = r.files
           /\ last' = [op |-> "generate", scenario |-> scenario_data,
                       jw |-> jw, hw |-> hw,
                       raised |-> r.raised, ret |-> r.ret]
    /\ UNCHANGED <<fs, csv, json, clock, now, returned, procs>>

\* One POST request to the report generation page.
GenerateView(post, jw, hw) ==
    /\ LET r == generate_forensic_report_view(post, now, reports, jw, hw)
       IN  /\ reports' = r.files
           /\ last' = [op |-> "generate_view", post |-> post,
                       jw |-> jw, hw |-> hw,
                       raised |-> r.raised, ret |-> r.ret,
                       report |-> r.report]
    /\ UNCHANGED <<fs, csv, json, clock, now, returned, procs>>

\* A second of wall-clock time passes.
Tick ==
    /\ now < MaxNow
    /\ now' = now + 1
    /\ last' = [op |-> "tick"]
    /\ UNCHANGED <<fs, csv, json, clock, reports, returned, procs>>

\* One request to execute_command.  create_evidence_chain takes the next
\* timestamp when the branch calls it.
ExecuteCommand(action, output, p, canRead, cf, jf, fb) ==
    /\ action = "extract_google_maps" \/ clock < MaxCalls
    /\ \E x \in { execute_command(action, output, p, fs[p], canRead,
                                   clock + 1, csv, json, cf, jf, fb) } :
           /\ fs' = [fs EXCEPT ![p] = x.file]
           /\ csv' = x.csv
           /\ json' = x.json
           /\ clock' = clock + Len(x.recorded)
           /\ last' = [op |-> "execute", action |-> action, path |-> p,
                       raised |-> FALSE, ret |-> x.result,
                       recorded |-> x.recorded]
           /\ returned' =
                 IF x.recorded # <<>> /\ x.recorded[1].integrity_check = "PASS"
                 THEN Append(returned, [entry |-> x.recorded[1], data |-> output])
                 ELSE returned
    /\ UNCHANGED <<reports, now, procs>>

\* The report download request.
Download(report_id) ==
    /\ last' = [op |-> "download", report_id |-> report_id, raised |-> FALSE,
                ret |-> download_report(report_id, reports)]
    /\ UNCHANGED <<fs, csv, json, clock, reports, now, returned, procs>>

\* create_evidence_chain in a request served concurrently with others, one
\* step at a time.  Start: the stat, the three digests and the record; a
\* missing file ends the call with a FAIL record.
Start(w, p, operation_type) ==
    /\ procs[w].pc \in {"idle", "done"}
    /\ clock < MaxConc
    /\ clock' = clock + 1
    /\ LET f == fs[p]
           size == getsize(f)
           entry == evidence_entry(p, operation_type, size.value,
                                   calculate_hash(f, TRUE, "md5").value,
                                   calculate_hash(f, TRUE, "sha1").value,
                                   calculate_hash(f, TRUE, "sha256").value,
                                   clock + 1)
       IN  IF size.raised
           THEN /\ procs' = [procs EXCEPT ![w] =
                                [pc |-> "done", path |-> p,
                                 entry |-> fail_entry(p, clock + 1, "stat"),
                                 file_exists |-> FALSE, read |-> <<>>,
                                 data |-> <<>>, fallback |-> FALSE,
                                 wrote |-> FALSE]]
                /\ last' = [op |-> "record", path |-> p,
                            label |-> operation_type, canRead |-> TRUE,
                            raised |-> FALSE,
                            ret |-> fail_entry(p, clock + 1, "stat"),
                            digest |-> NotCalled, fallback |-> FALSE]
           ELSE /\ procs' = [procs EXCEPT ![w] =
                                [pc |-> "csv_check", path |-> p,
                                 entry |-> entry,
                                 file_exists |-> FALSE, read |-> <<>>,
                                 data |-> <<>>, fallback |-> FALSE,
                                 wrote |-> FALSE]]
                /\ last' = last
    /\ UNCHANGED <<fs, csv, json, reports, now, returned>>

\* save_to_evidence_log: file_exists = os.path.isfile(log_file).
CsvCheck(w) ==
    /\ procs[w].pc = "csv_check"
    /\ procs' = [procs EXCEPT ![w].pc = "csv_write",
                              ![w].file_exists = isfile(csv)]
    /\ UNCHANGED <<fs, csv, json, clock, last, reports, now, returned>>

\* A step that goes on to the JSON document without writing the CSV row.
CsvWrite_skipping(w) ==
    /\ procs[w].pc = "csv_write"
    /\ procs' = [procs EXCEPT ![w].pc = "json_read"]
    /\ UNCHANGED <<fs, csv, json, clock, last, reports, now, returned>>

\* save_to_evidence_log: the with block (what it wrote reaches the file when
\* the block closes it).
CsvWrite(w) ==
    /\ procs[w].pc = "csv_write"
    /\ csv' = csv_write(csv, procs[w].entry, procs[w].file_exists)
    /\ procs' = [procs EXCEPT ![w].pc = "json_read"]
    /\ UNCHANGED <<fs, json, clock, last, reports, now, returned>>

\* save_to_json_log: read the document, or start from an empty one when the
\* file does not exist, and append the entry in memory.  A file that does
\* not hold a document raises: the except branch will write the entry alone.
JsonRead(w) ==
    /\ procs[w].pc = "json_read"
    /\ procs' = [procs EXCEPT
                    ![w].pc = "json_open",
                    ![w].read = json.chain,
                    ![w].fallback = (json.state = "corrupt"),
                    ![w].data = IF json.state = "corrupt"
                                THEN <<procs[w].entry>>
                                ELSE Append(json.chain, procs[w].entry)]
    /\ UNCHANGED <<fs, csv, json, clock, last, reports, now, returned>>

\* save_to_json_log: open(log_file, 'w') empties the file.
JsonOpen(w) ==
    /\ procs[w].pc = "json_open"
    /\ json' = CorruptDoc
    /\ procs' = [procs EXCEPT ![w].pc = "json_dump"]
    /\ UNCHANGED <<fs, csv, clock, last, reports, now, returned>>

\* A rewrite that reads the document again and appends to what it finds.
JsonDump_merging(w, short) ==
    /\ procs[w].pc = "json_dump"
    /\ ~short
    /\ json' = Doc(Append(json.chain, procs[w].entry))
    /\ procs' = [procs EXCEPT ![w].pc = "done", ![w].wrote = TRUE]
    /\ last' = [op |-> "record", path |-> procs[w].path,
                label |-> procs[w].entry.operation, canRead |-> TRUE,
                raised |-> FALSE, ret |-> procs[w].entry,
                digest |-> [raised |-> FALSE, value |-> procs[w].entry.sha256],
                fallback |-> procs[w].fallback]
    /\ returned' = Append(returned, [entry |-> procs[w].entry,
                                     data |-> fs[procs[w].path].data])
    /\ UNCHANGED <<fs, csv, clock, reports, now>>

\* save_to_json_log: json.dump and the close of the file, then the return
\* of create_evidence_chain.  The document is written from the start of the
\* file; when another writer has written a document since this one emptied
\* the file, the bytes of that document beyond the length of this one stay
\* (short: this document is the shorter one) and the file holds no document.
JsonDump(w, short) ==
    /\ procs[w].pc = "json_dump"
    /\ short => json.state = "ok"
    /\ json' = IF short THEN CorruptDoc ELSE Doc(procs[w].data)
    /\ procs' = [procs EXCEPT ![w].pc = "done", ![w].wrote = TRUE]
    /\ last' = [op |-> "record", path |-> procs[w].path,
                label |-> procs[w].entry.operation, canRead |-> TRUE,
                raised |-> FALSE, ret |-> procs[w].entry,
                digest |-> [raised |-> FALSE, value |-> procs[w].entry.sha256],
                fallback |-> procs[w].fallback]
    /\ returned' = Append(returned, [entry |-> procs[w].entry,
                                     data |-> fs[procs[w].path].data])
    /\ UNCHANGED <<fs, csv, clock, reports, now>>

\* create_evidence_chain while other requests write the artefact file, one
\* read of the file at a time.  StatFile: os.path.getsize (and getmtime,
\* getctime); a missing file ends the call with a FAIL record.
StatFile(w, p, operation_type) ==
    /\ procs[w].pc \in {"idle", "done"}
    /\ clock < MaxCalls
    /\ clock' = clock + 1
    /\ LET size == getsize(fs[p])
       IN  IF size.raised
           THEN /\ procs' = [procs EXCEPT ![w] = [pc |-> "done"]]
                /\ last' = [op |-> "record", path |-> p,
                            label |-> operation_type, canRead |-> TRUE,
                            raised |-> FALSE,
                            ret |-> fail_entry(p, clock + 1, "stat"),
                            digest |-> NotCalled, fallback |-> FALSE]
           ELSE /\ procs' = [procs EXCEPT ![w] =
                                [pc |-> "md5", path |-> p,
                                 label |-> operation_type,
                                 size |-> size.value, ts |-> clock + 1,
                                 md5 |-> ERROR, sha1 |-> ERROR]]
                /\ last' = last
    /\ UNCHANGED <<fs, csv, json, reports, now, returned>>

\* calculate_hash(file_path, 'md5'), then calculate_hash(file_path, 'sha1'):
\* each opens the file and reads it to its end.
ReadHash(w, algorithm) ==
    /\ procs[w].pc = algorithm
    /\ LET h == calculate_hash(fs[procs[w].path], TRUE, algorithm).value
       IN  procs' = IF algorithm = "md5"
                    THEN [procs EXCEPT ![w].pc = "sha1", ![w].md5 = h]
                    ELSE [procs EXCEPT ![w].pc = "sha256", ![w].sha1 = h]
    /\ UNCHANGED <<fs, csv, json, clock, last, reports, now, returned>>

\* calculate_hash(file_path, 'sha256'), the record, save_to_evidence_log and
\* the return of create_evidence_chain.
ReadHashAndSave(w) ==
    /\ procs[w].pc = "sha256"
    /\ LET f == fs[procs[w].path]
           h == calculate_hash(f, TRUE, "sha256")
           entry == evidence_entry(procs[w].path, procs[w].label,
                                   procs[w].size, procs[w].md5, procs[w].sha1,
                                   h.value, procs[w].ts)
           saved == save_to_evidence_log(entry, csv, json, FALSE, "none", "none")
       IN  /\ csv' = saved.csv
           /\ json' = saved.json
           /\ last' = [op |-> "record", path |-> procs[w].path,
                       label |-> procs[w].label, canRead |-> TRUE,
                       raised |-> FALSE, ret |-> entry, digest |-> h,
                       fallback |-> saved.fallback]
           /\ returned' = Append(returned, [entry |-> entry, data |-> f.data])
    /\ procs' = [procs EXCEPT ![w] = [pc |-> "done"]]
    /\ UNCHANGED <<fs, clock, reports, now>>

\* Every file can be read and the ledger files can always be opened, read
\* and written.
Next ==
    \/ \E p \in Paths, c \in Contents : Produce(p, c)
    \/ \E p \in Paths : Vanish(p)
    \/ \E p \in Paths, l \in Labels : Record(p, l, TRUE, FALSE, "none", "none")
    \/ \E p \in Paths : Verify(p, TRUE)
    \/ ViewChain
    \/ Generate(get_latest_extraction_data, NoScenario, FALSE, FALSE)
    \/ \E report_id \in RequestedIds : Download(report_id)

Spec == Init /\ [][Next]_vars

\* Artefact files can be unreadable, and opening, reading and writing the
\* ledger files and the report files can fail.
NextIO ==
    \/ \E p \in IOPaths, c \in Contents : Produce(p, c)
    \/ \E p \in IOPaths : Vanish(p)
    \/ \E p \in IOPaths, l \in Labels, canRead \in BOOLEAN, cf \in BOOLEAN,
          jf \in JsonFaults, fb \in FallbackFaults :
            Record(p, l, canRead, cf, jf, fb)
    \/ \E p \in IOPaths, canRead \in BOOLEAN : Verify(p, canRead)
    \/ ViewChain
    \/ \E jw \in BOOLEAN, hw \in BOOLEAN :
            Generate(get_latest_extraction_data, NoScenario, jw, hw)
    \/ \E report_id \in RequestedIds : Download(report_id)

SpecIO == Init /\ [][NextIO]_vars

\* Concurrent requests: each call of create_evidence_chain advances by the
\* steps Start, CsvCheck, CsvWrite, JsonRead, JsonOpen and JsonDump, and the
\* steps of different writers interleave.
NextConc ==
    \/ \E p \in ConcPaths, c \in ConcContents : Produce(p, c)
    \/ \E w \in Writers, p \in ConcPaths, l \in Labels : Start(w, p, l)
    \/ \E w \in Writers : CsvCheck(w)
    \/ \E w \in Writers : CsvWrite(w)
    \/ \E w \in Writers : JsonRead(w)
    \/ \E w \in Writers : JsonOpen(w)
    \/ \E w \in Writers, short \in BOOLEAN : JsonDump(w, short)

SpecConc == Init /\ [][NextConc]_vars

\* Concurrent requests, with verify requests served in between the steps of
\* the record calls.
NextConcVerify ==
    \/ NextConc
    \/ \E p \in ConcPaths : Verify(p, TRUE)

SpecConcVerify == Init /\ [][NextConcVerify]_vars

\* Record calls whose reads of the artefact file interleave with writes of
\* that file by other requests.
NextCapture ==
    \/ \E p \in IOPaths, c \in Contents : Produce(p, c)
    \/ \E w \in Writers, p \in IOPaths, l \in Labels : StatFile(w, p, l)
    \/ \E w \in Writers, algorithm \in {"md5", "sha1"} : ReadHash(w, algorithm)
    \/ \E w \in Writers : ReadHashAndSave(w)

SpecCapture == Init /\ [][NextCapture]_vars

\* The report requests: reports are generated by direct calls, whose HTML
\* file can fail to open, and through the web form, and time passes; record
\* and verify are called in between (for an artefact file that is missing).
NextReport ==
    \/ \E scenario_data \in Scenarios, hw \in BOOLEAN :
            Generate(get_latest_extraction_data, scenario_data, FALSE, hw)
    \/ \E post \in Posts : GenerateView(post, FALSE, FALSE)
    \/ \E report_id \in RequestedIds : Download(report_id)
    \/ \E p \in IOPaths, l \in Labels : Record(p, l, TRUE, FALSE, "none", "none")
    \/ \E p \in IOPaths : Verify(p, TRUE)
    \/ Tick

SpecReport == Init /\ [][NextReport]_vars

\* The acquisition requests: the artefact file a request has just written
\* can be read; the CSV log can fail to open and the rewrites of the JSON
\* document can fail half way.
NextAcq ==
    \/ \E action \in Actions, output \in Outputs, p \in IOPaths,
          cf \in BOOLEAN, jf \in {"none", "write"}, fb \in {"none", "write"} :
            ExecuteCommand(action, output, p, TRUE, cf, jf, fb)
    \/ \E p \in IOPaths : Verify(p, TRUE)
    \/ ViewChain

SpecAcq == Init /\ [][NextAcq]_vars

----------------------------------------------------------------------------
\* Properties

\* s is a prefix of t.
IsPrefix(s, t) == Len(s) <= Len(t) /\ SubSeq(t, 1, Len(s)) = s

\* Index of the last entry of the chain with that filename; 0 when none.
last_match(chain, filename) ==
    IF \E i \in 1..Len(chain) : chain[i].filename = filename
    THEN CHOOSE i \in 1..Len(chain) :
            /\ chain[i].filename = filename
            /\ \A k \in (i + 1)..Len(chain) : chain[k].filename # filename
    ELSE 0

\* Index in `returned` of the latest PASS record of that path; 0 when none.
last_returned(path) ==
    IF \E i \in 1..Len(returned) : returned[i].entry.full_path = path
    THEN CHOOSE i \in 1..Len(returned) :
            /\ returned[i].entry.full_path = path
            /\ \A k \in (i + 1)..Len(returned) : returned[k].entry.full_path # path
    ELSE 0

\* The last call was verify and it returned a comparison of two digests.
Compared ==
    /\ last.op = "verify"
    /\ ~last.raised
    /\ last.ret.status \in {"success", "warning"}

\* The VERIFIED and TAMPERED outcomes of verify.
Verified(r) ==
    /\ ~r.raised
    /\ r.ret.status = "success"
    /\ r.ret.match = TRUE
    /\ r.ret.original_hash = r.ret.current_hash

Tampered(r) ==
    /\ ~r.raised
    /\ r.ret.status = "warning"
    /\ r.ret.match = FALSE
    /\ r.ret.original_hash # r.ret.current_hash

\* C1: "most recent wins": the original_hash a verify compares against is
\* the sha256 of the LAST record of the ledger document whose filename is the
\* base name of the verified path.
C1_MostRecentWins ==
    Compared =>
        last.ret.original_hash =
            json.chain[last_match(json.chain, basename(last.path))].sha256

\* C2: a verify of f that immediately follows a record of f that returned
\* PASS (f not modified in between) returns VERIFIED, whatever the earlier
\* ledger history.
C2_RecordThenVerify ==
    [][ ( /\ last.op = "record"
          /\ last.ret.integrity_check = "PASS"
          /\ last'.op = "verify"
          /\ last'.path = last.path )
        => Verified(last') ]_vars

\* C3: a verify of f whose contents differ from the contents captured by the
\* latest record of f returns TAMPERED, whatever the earlier ledger history.
C3_ModifiedThenVerify ==
    ( /\ last.op = "verify"
      /\ fs[last.path].exists
      /\ last_returned(last.path) # 0
      /\ returned[last_returned(last.path)].data # fs[last.path].data )
    => Tampered(last)

\* C4 as claimed: every step leaves the rows of the CSV log and the records
\* of the JSON document in place: the sequence before is a prefix of the
\* sequence after.
C4_AppendOnly ==
    [][ /\ IsPrefix(csv.rows, csv'.rows)
        /\ IsPrefix(json.chain, json'.chain) ]_vars

\* C4 as amended: every step leaves the rows of the CSV log in place; it
\* leaves the records of the JSON document in place too, unless it is a
\* record call in which save_to_json_log fell back to its except branch (the
\* document could not be read or rewritten): then the document holds the new
\* record alone, or is corrupt (the rewrite failed half way), or is
\* untouched (it could not be opened).
C4_AppendOnlyUnlessFallback ==
    [][ /\ IsPrefix(csv.rows, csv'.rows)
        /\ \/ /\ IsPrefix(json.chain, json'.chain)
              /\ json.state = "ok" => json'.state = "ok"
           \/ /\ clock' = clock + 1
              /\ last'.op = "record"
              /\ last'.fallback
              /\ json' \in { Doc(<<csv'.rows[Len(csv'.rows)]>>), CorruptDoc } ]_vars

\* C4 witness: a record call on a ledger that already held a record fell
\* back and replaced the document by the new record alone.
C4_Witness ==
    /\ last.op = "record"
    /\ last.fallback
    /\ Len(csv.rows) >= 2
    /\ json = Doc(<<csv.rows[Len(csv.rows)]>>)

\* C5: with the ledger files never failing, reading the ledger document after
\* N record calls that returned PASS gives exactly those N records, in call
\* order.
C5_MonotonicAppend ==
    LET listing == view_evidence_chain(json)
    IN  /\ ~listing.raised
        /\ listing.ret.total_entries = Len(returned)
        /\ listing.ret.evidence_chain =
               [i \in 1..Len(returned) |-> returned[i].entry]

\* C5 witness: two record calls returned PASS and the ledger was then listed.
C5_Witness ==
    /\ Len(returned) >= 2
    /\ last.op = "list"
    /\ last.ret.total_entries = Len(returned)

\* C6: no row of the CSV log and no element of the JSON document has the
\* placeholder as its sha256.
C6_NoPlaceholderDigest ==
    /\ \A i \in 1..Len(csv.rows) : csv.rows[i].sha256 # ERROR
    /\ \A i \in 1..Len(json.chain) : json.chain[i].sha256 # ERROR

\* C7: record never raises to its caller: whatever fails (the stat of a
\* missing file, the digest, the CSV append, the JSON rewrite and its
\* fallback), it returns a record.
C7_RecordNeverRaises ==
    last.op = "record" =>
        /\ ~last.raised
        /\ last.ret.integrity_check \in {"PASS", "FAIL"}

\* C7 witness: a record call in which the fallback rewrite of the JSON
\* document failed returned a FAIL record.
C7_Witness ==
    /\ last.op = "record"
    /\ last.fallback
    /\ json.state = "corrupt"
    /\ last.ret.integrity_check = "FAIL"

\* C8: record returns PASS only when the stat, the three digests and the
\* ledger append all succeeded; any failed step gives FAIL with an error
\* field.
C8_FailOnAnyFailure ==
    last.op = "record" =>
        IF fs[last.path].exists /\ last.canRead
           /\ Len(csv.rows) > 0 /\ csv.rows[Len(csv.rows)] = last.ret
           /\ json.state = "ok" /\ json.chain[Len(json.chain)] = last.ret
        THEN last.ret.integrity_check = "PASS"
        ELSE /\ last.ret.integrity_check = "FAIL"
             /\ "error" \in DOMAIN last.ret

\* C9: a record call for a file that is missing or cannot be read leaves a
\* degraded entry (integrity_check FAIL) for that file in the ledger, and
\* raises nothing.
C9_FailureIsLogged ==
    ( /\ last.op = "record"
      /\ ~fs[last.path].exists \/ ~last.canRead )
    => /\ ~last.raised
       /\ \E i \in 1..Len(json.chain) :
            /\ json.chain[i].filename = basename(last.path)
            /\ json.chain[i].integrity_check = "FAIL"
            /\ json.chain[i].timestamp = clock
       /\ \E i \in 1..Len(csv.rows) :
            /\ csv.rows[i].filename = basename(last.path)
            /\ csv.rows[i].integrity_check = "FAIL"
            /\ csv.rows[i].timestamp = clock

\* C10: the digest operation raises when the file cannot be opened, and what
\* it returns is the digest of the file's contents.
C10_DigestFailureRaises ==
    ( /\ last.op = "record"
      /\ fs[last.path].exists )
    => IF last.canRead
       THEN /\ ~last.digest.raised
            /\ last.digest.value = hexdigest("sha256", fs[last.path].data)
       ELSE last.digest.raised

\* C11: a verify of an existing file whose base name matches no record of
\* the ledger document returns an error result (status error, no match
\* field), raises nothing and leaves both ledger files unchanged.
C11_NoRecordIsError ==
    [][ ( /\ last'.op = "verify"
          /\ fs[last'.path].exists
          /\ json.state = "ok"
          /\ last_match(json.chain, basename(last'.path)) = 0 )
        => /\ ~last'.raised
           /\ last'.ret.status = "error"
           /\ "match" \notin DOMAIN last'.ret
           /\ csv' = csv
           /\ json' = json ]_vars

\* C11 witness: a verify of an existing file found a non-empty ledger
\* document without a record of its base name.
C11_Witness ==
    /\ last.op = "verify"
    /\ fs[last.path].exists
    /\ json.state = "ok"
    /\ Len(json.chain) > 0
    /\ last_match(json.chain, basename(last.path)) = 0
    /\ last.ret.message = "Preuve originale introuvable"

\* C12: a verify of a missing file, or with the ledger document missing, or
\* with the ledger document corrupt, returns an error result and raises
\* nothing.
C12_NotFoundIsError ==
    ( /\ last.op = "verify"
      /\ \/ ~fs[last.path].exists
         \/ json.state \in {"absent", "corrupt"} )
    => /\ ~last.raised
       /\ last.ret.status = "error"

\* C13: every result of verify contains original_hash and current_hash.
C13_BothDigestsReported ==
    ( /\ last.op = "verify"
      /\ ~last.raised )
    => {"original_hash", "current_hash"} \subseteq DOMAIN last.ret

\* C15: a record call that finds the JSON document corrupt or unreadable
\* (and meets no other failure) does not fail: it returns PASS, the document
\* afterwards holds exactly the new record, and the CSV log holds every
\* previous row followed by the new row.  Stated for the call made on every
\* reachable state of the ledger.
C15_CorruptDocumentRecovered ==
    \A p \in IOPaths, l \in Labels, jf \in JsonFaults :
        ( /\ fs[p].exists
          /\ json.state = "corrupt" \/ (json.state = "ok" /\ jf = "read") )
        => LET r == create_evidence_chain(p, l, fs[p], TRUE, clock + 1,
                                          csv, json, FALSE, jf, "none")
           IN  /\ ~r.raised
               /\ r.ret.integrity_check = "PASS"
               /\ r.fallback
               /\ r.json = Doc(<<r.ret>>)
               /\ r.csv.rows = Append(csv.rows, r.ret)
               /\ r.csv.shape = csv.shape \o <<"R">>

\* C15 witness: a record call on a ledger that already held a PASS record
\* ran the except branch of save_to_json_log, returned PASS and left the
\* document holding the new record alone; the CSV log kept the earlier row.
C15_Witness ==
    /\ last.op = "record"
    /\ last.fallback
    /\ last.ret.integrity_check = "PASS"
    /\ json = Doc(<<last.ret>>)
    /\ Len(csv.rows) >= 2
    /\ csv.rows[Len(csv.rows)] = last.ret
    /\ csv.rows[1].integrity_check = "PASS"
    /\ csv.rows[1] # last.ret

\* C18 as claimed: a record call that returns PASS adds exactly one row to
\* the CSV log and exactly one element to the JSON document, and leaves the
\* artefact files unchanged.
C18_OneEntryPerCall ==
    [][ ( /\ last'.op = "record"
          /\ clock' = clock + 1
          /\ last'.ret.integrity_check = "PASS" )
        => /\ csv'.rows = Append(csv.rows, last'.ret)
           /\ json'.state = "ok"
           /\ json'.chain = Append(json.chain, last'.ret)
           /\ fs' = fs ]_vars

\* C18 as amended: a record call that returns PASS adds exactly one row to
\* the CSV log and leaves the artefact files unchanged; it adds exactly one
\* element to the JSON document, unless save_to_json_log fell back to its
\* except branch: then the document afterwards holds the new record alone.
C18_OneEntryUnlessFallback ==
    [][ ( /\ last'.op = "record"
          /\ clock' = clock + 1
          /\ last'.ret.integrity_check = "PASS" )
        => /\ csv'.rows = Append(csv.rows, last'.ret)
           /\ json'.state = "ok"
           /\ json'.chain = IF last'.fallback
                            THEN <<last'.ret>>
                            ELSE Append(json.chain, last'.ret)
           /\ fs' = fs ]_vars

\* C18 witness: a record call returned PASS without falling back, on a
\* ledger that already held a record.
C18_Witness ==
    /\ last.op = "record"
    /\ last.ret.integrity_check = "PASS"
    /\ ~last.fallback
    /\ Len(json.chain) >= 2
    /\ json.chain[Len(json.chain)] = last.ret
    /\ Len(csv.rows) = Len(json.chain)

\* C19: verify, the ledger listing, report generation and report download
\* leave the CSV log and the JSON document unchanged, whatever their
\* outcome.
C19_OnlyRecordWrites ==
    [][ last'.op \in {"verify", "list", "generate", "download"}
        => /\ csv' = csv
           /\ json' = json ]_vars

\* C19 witness: a report was downloaded while the ledger held a record.
C19_Witness ==
    /\ last.op = "download"
    /\ last.ret.status = 200
    /\ json.state = "ok"
    /\ Len(json.chain) >= 1
    /\ Len(csv.rows) >= 1

\* C20 as claimed: a record call for an existing readable file returns a
\* PASS record whose filename is the base name of the path, full_path the
\* path, file_size the byte count, operation the label and sha256 the digest
\* of the contents; that record is the last row of the CSV log and the last
\* element of the JSON document when the call returns.
C20_RecordContents ==
    ( /\ last.op = "record"
      /\ fs[last.path].exists
      /\ last.canRead )
    => /\ last.ret.integrity_check = "PASS"
       /\ last.ret.filename = basename(last.path)
       /\ last.ret.full_path = last.path
       /\ last.ret.file_size = Len(fs[last.path].data)
       /\ last.ret.operation = last.label
       /\ last.ret.sha256 = hexdigest("sha256", fs[last.path].data)
       /\ Len(csv.rows) > 0
       /\ csv.rows[Len(csv.rows)] = last.ret
       /\ json.state = "ok"
       /\ Len(json.chain) > 0
       /\ json.chain[Len(json.chain)] = last.ret

\* C20 as amended: the same, unless writing the ledger failed: then the call
\* returns a FAIL record that names the failure.
C20_RecordContentsUnlessLedgerFails ==
    ( /\ last.op = "record"
      /\ fs[last.path].exists
      /\ last.canRead )
    => IF last.ret.integrity_check = "PASS"
       THEN /\ last.ret.filename = basename(last.path)
            /\ last.ret.full_path = last.path
            /\ last.ret.file_size = Len(fs[last.path].data)
            /\ last.ret.operation = last.label
            /\ last.ret.sha256 = hexdigest("sha256", fs[last.path].data)
            /\ Len(csv.rows) > 0
            /\ csv.rows[Len(csv.rows)] = last.ret
            /\ json.state = "ok"
            /\ Len(json.chain) > 0
            /\ json.chain[Len(json.chain)] = last.ret
       ELSE /\ last.ret.integrity_check = "FAIL"
            /\ last.ret.error = "ledger"
            /\ last.ret.filename = basename(last.path)

\* C20 witness: a record call for an existing readable file returned PASS
\* and its record ends both ledger files.
C20_Witness ==
    /\ last.op = "record"
    /\ fs[last.path].exists
    /\ last.canRead
    /\ last.ret.integrity_check = "PASS"
    /\ last.ret.sha256 = hexdigest("sha256", fs[last.path].data)
    /\ csv.rows[Len(csv.rows)] = last.ret
    /\ json.chain[Len(json.chain)] = last.ret

\* C16: every request to execute_command that wrote an artefact file has
\* called create_evidence_chain exactly once by the time it answers.
C16_ArtefactRecordedOnce ==
    [][ ( /\ last'.op = "execute"
          /\ last'.ret.file_path # NoPath )
        => /\ clock' = clock + 1
           /\ Len(last'.recorded) = 1
           /\ last'.recorded[1].filename = basename(last'.path) ]_vars

\* C14: lost update.  Whenever two concurrent record calls have read the
\* same JSON document and both have written back and returned, both returned
\* PASS and the document holds at most one of the two new records: it is
\* the document either call read with that call's record appended (or, when
\* the later rewrite was the shorter one, no document at all).
C14_LostUpdate ==
    \A v \in Writers, w \in Writers :
        ( /\ v # w
          /\ procs[v].pc = "done" /\ procs[w].pc = "done"
          /\ procs[v].wrote /\ procs[w].wrote
          /\ ~procs[v].fallback /\ ~procs[w].fallback
          /\ procs[v].read = procs[w].read )
        => /\ procs[v].entry.integrity_check = "PASS"
           /\ procs[w].entry.integrity_check = "PASS"
           /\ json \in { Doc(Append(procs[v].read, procs[v].entry)),
                          Doc(Append(procs[w].read, procs[w].entry)),
                          CorruptDoc }

\* C14 witness: two calls read the same one-record document, both wrote back
\* and returned PASS; the CSV log has both new rows, the document only one
\* of the two new records.
C14_Witness ==
    \E v \in Writers, w \in Writers :
        /\ v # w
        /\ procs[v].pc = "done" /\ procs[w].pc = "done"
        /\ procs[v].wrote /\ procs[w].wrote
        /\ procs[v].read = procs[w].read
        /\ Len(procs[v].read) = 1
        /\ procs[v].entry.integrity_check = "PASS"
        /\ procs[w].entry.integrity_check = "PASS"
        /\ json = Doc(Append(procs[w].read, procs[w].entry))
        /\ \A i \in 1..Len(json.chain) : json.chain[i] # procs[v].entry
        /\ \E i \in 1..Len(csv.rows) : csv.rows[i] = procs[v].entry
        /\ \E i \in 1..Len(csv.rows) : csv.rows[i] = procs[w].entry

\* C17: the CSV log has exactly one header row, first, followed by one row
\* per appended record.
C17_SingleHeader ==
    \/ csv.shape = <<>>
    \/ /\ csv.shape[1] = "H"
       /\ \A i \in 2..Len(csv.shape) : csv.shape[i] = "R"
       /\ Len(csv.rows) = Len(csv.shape) - 1

\* C21: the evidence-chain statistics of a generated report come from the
\* ledger: total_files is the number of records of the ledger when the
\* report is generated.
C21_StatisticsFromLedger ==
    last.op = "generate" =>
        last.ret.evidence_chain.total_files = Len(json.chain)

\* The call was a report generation, by a direct call or through the form.
IsGenerate(l) == l.op \in {"generate", "generate_view"}

\* The report a generation built.
ReportOf(l) == IF l.op = "generate" THEN l.ret ELSE l.report

\* The case name was supplied to that generation, and its value.
CaseNameSupplied(l) ==
    IF l.op = "generate"
    THEN truthy(l.scenario) /\ "case_name" \in DOMAIN l.scenario.d
    ELSE "case_name" \in DOMAIN l.post /\ l.post.case_name # ""

SuppliedCaseName(l) ==
    IF l.op = "generate" THEN l.scenario.d.case_name ELSE l.post.case_name

\* C22 (for the field case_name): the case name of a generated report is
\* the supplied one when one was supplied; when it was omitted (metadata
\* absent, field absent from the metadata, or left empty in the web form)
\* it is one and the same default: two generations in a row that both omit
\* it give the same case name.
C22_OneDefaultPerField ==
    [][ IsGenerate(last') =>
          /\ CaseNameSupplied(last') =>
                ReportOf(last').case_details.case_name = SuppliedCaseName(last')
          /\ ( /\ IsGenerate(last)
               /\ ~CaseNameSupplied(last)
               /\ ~CaseNameSupplied(last') )
             => ReportOf(last').case_details.case_name =
                    ReportOf(last).case_details.case_name ]_vars

\* C23 as claimed: every generation gets a report id no earlier report file
\* has, and no step changes or removes a report file once it is written.
C23_ImmutableUnique ==
    [][ /\ \A id \in DOMAIN reports.json :
              id \in DOMAIN reports'.json /\ reports'.json[id] = reports.json[id]
        /\ \A id \in DOMAIN reports.html :
              id \in DOMAIN reports'.html /\ reports'.html[id] = reports.html[id]
        /\ IsGenerate(last') =>
              ReportOf(last').report_id \notin
                  (DOMAIN reports.json \cup DOMAIN reports.html) ]_vars

\* C23 as amended: no step removes a report file, and the only step that
\* changes one is a generation made in the second its report id names; a
\* generation gets the report id of its second, which an earlier report
\* file has only when that report was generated in the same second.
C23_ImmutableUnlessSameSecond ==
    [][ /\ \A id \in DOMAIN reports.json :
              /\ id \in DOMAIN reports'.json
              /\ reports'.json[id] # reports.json[id]
                    => IsGenerate(last') /\ id = report_id_at(now)
        /\ \A id \in DOMAIN reports.html :
              /\ id \in DOMAIN reports'.html
              /\ reports'.html[id] # reports.html[id]
                    => IsGenerate(last') /\ id = report_id_at(now)
        /\ IsGenerate(last') =>
              /\ ReportOf(last').report_id = report_id_at(now)
              /\ \A id \in DOMAIN reports.json :
                    id = ReportOf(last').report_id
                        => reports.json[id].generation_date = now ]_vars

\* C23 witness: a report of an earlier second is still as it was written
\* after a later generation, which got another report id.
C23_Witness ==
    /\ now = 1
    /\ last.op = "generate"
    /\ ~last.raised
    /\ last.ret.report_id = report_id_at(1)
    /\ report_id_at(0) \in DOMAIN reports.json
    /\ report_id_at(0) \in DOMAIN reports.html
    /\ reports.json[report_id_at(0)].generation_date = 0
    /\ reports.json[report_id_at(1)] = last.ret

\* C24: after a generate that returned, the JSON file and the HTML file of
\* the returned report id exist, the JSON file holds the returned report,
\* and its case name is the supplied one; a generate whose HTML write failed
\* raised to its caller and left the JSON file, written first, in place.
C24_BothFilesOrJsonOnly ==
    last.op = "generate" =>
        LET id == last.ret.report_id
        IN  /\ last.raised = last.hw
            /\ id \in DOMAIN reports.json
            /\ reports.json[id] = last.ret
            /\ ~last.raised =>
                  /\ id \in DOMAIN reports.html
                  /\ reports.html[id] = generate_html_report(last.ret)
                  /\ CaseNameSupplied(last) =>
                        reports.json[id].case_details.case_name =
                            SuppliedCaseName(last)

\* C24 witness: a generate with the case name "Affaire X" returned and both
\* files of its report id exist, the JSON file with that case name.
C24_Witness ==
    /\ last.op = "generate"
    /\ ~last.raised
    /\ CaseNameSupplied(last)
    /\ SuppliedCaseName(last) = "Affaire X"
    /\ last.ret.report_id \in DOMAIN reports.json
    /\ last.ret.report_id \in DOMAIN reports.html
    /\ reports.json[last.ret.report_id].case_details.case_name = "Affaire X"

\* C26: a request to execute_command that wrote its artefact file and whose
\* call of create_evidence_chain returned a FAIL record (a ledger write
\* failed) still answers status success with the path of the artefact, and
\* shows the placeholder N/A in place of the evidence hash.
C26_ActionSucceedsAnyway ==
    ( /\ last.op = "execute"
      /\ last.recorded # <<>>
      /\ last.recorded[1].integrity_check = "FAIL" )
    => /\ ~last.raised
       /\ last.ret.status = "success"
       /\ last.ret.file_path = last.path
       /\ fs[last.path].exists
       /\ last.ret.message[2] = <<"N/A">>
       /\ "evidence_hash" \in DOMAIN last.ret
             => last.ret.evidence_hash = <<"N/A">>

\* C26 witness: the contacts extraction wrote its file, the CSV log could
\* not be opened, and the request answered success with N/A as its hash.
C26_Witness ==
    /\ last.op = "execute"
    /\ last.action = "extract_contacts"
    /\ last.recorded # <<>>
    /\ last.recorded[1].integrity_check = "FAIL"
    /\ csv.rows = <<>>
    /\ fs[last.path].exists
    /\ last.ret.status = "success"
    /\ last.ret.evidence_hash = <<"N/A">>

\* C27: verify returns match = true only when the current digest was
\* computed from the bytes of the file and the reference digest is a digest
\* too, not the placeholder of a failed computation.
C27_MatchMeansDigestsCompared ==
    ( /\ last.op = "verify"
      /\ ~last.raised
      /\ last.ret.status = "success" )
    => /\ last.canRead
       /\ last.ret.current_hash = hexdigest("sha256", fs[last.path].data)
       /\ last.ret.original_hash # ERROR

\* C29: a record call that returns a FAIL record has added nothing to the
\* CSV log and nothing to the JSON document.
C29_FailAddsNothing ==
    [][ ( /\ last'.op = "record"
          /\ clock' = clock + 1
          /\ last'.ret.integrity_check = "FAIL" )
        => /\ csv'.rows = csv.rows
           /\ json'.chain = json.chain ]_vars

\* C28: in every state, also while concurrent record calls are in progress
\* and after a call has replaced a document it could not read, every record
\* of the JSON document is a row of the CSV log.
C28_DocumentWithinCsv ==
    \A i \in 1..Len(json.chain) :
        \E k \in 1..Len(csv.rows) : csv.rows[k] = json.chain[i]

\* C28 witness: a call that could not read the document (another call had
\* emptied it) has replaced it by its own record alone, while the CSV log
\* holds more rows than the document has records.
C28_Witness ==
    /\ json.state = "ok"
    /\ Len(csv.rows) > Len(json.chain)
    /\ \E w \in Writers :
          /\ procs[w].pc = "done"
          /\ procs[w].wrote
          /\ procs[w].fallback
          /\ json = Doc(<<procs[w].entry>>)
          /\ \E k \in 1..Len(csv.rows) : csv.rows[k] = procs[w].entry

\* C30: a verify of a file whose record call returned PASS earlier, served
\* while the only record calls in progress are for other files, raises
\* nothing and returns a comparison (VERIFIED or TAMPERED).
C30_VerifyDuringRecord ==
    [][ ( /\ last' # last
          /\ last'.op = "verify"
          /\ procs' = procs
          /\ fs[last'.path].exists
          /\ \E i \in 1..Len(returned) :
                returned[i].entry.full_path = last'.path
          /\ \A w \in Writers :
                procs[w].pc \notin {"idle", "done"}
                    => procs[w].path # last'.path )
        => /\ ~last'.raised
           /\ last'.ret.status \in {"success", "warning"} ]_vars

\* C25: the file_size, md5, sha1 and sha256 of a PASS record describe one
\* and the same contents of the file.
C25_OneSnapshot ==
    ( /\ last.op = "record"
      /\ last.ret.integrity_check = "PASS" )
    => \E c \in Contents :
          /\ last.ret.file_size = Len(c)
          /\ last.ret.md5 = hexdigest("md5", c)
          /\ last.ret.sha1 = hexdigest("sha1", c)
          /\ last.ret.sha256 = hexdigest("sha256", c)

====
